---- MODULE Spec2Model ----
(***************************************************************************)
(* Expense analyzer: the categorization pipeline of                        *)
(* src/src/categorize_transactions.py as driven by src/app.py.             *)
(*                                                                         *)
(* Text is a sequence of one-character strings.  A missing cell of a data  *)
(* frame is one of the two one-element sequences NaN and None, which no    *)
(* text can equal because their element is not a single character.         *)
(***************************************************************************)
EXTENDS Integers, Sequences, FiniteSets, TLC

(* --------------------------------- state --------------------------------- *)

VARIABLES
  df,              \* data/clean/transactions_clean.csv: [columns, rows]
  overrides_json,  \* data/config/overrides.json
  one_off_csv,     \* data/config/one_off_overrides.csv
  cat_csv,         \* data/clean/transactions_categorized.csv and session df
  pc,              \* "idle", "call" (a handler is about to recompute), "rows"
  out,             \* categorize: the working frame
  merchant_map,    \* categorize: the merchant overrides it loaded last
  one_off_map,     \* categorize: the one-off overrides it loaded last
  categories,      \* categorize: the categories decided so far
  sources,         \* categorize: their sources
  error,           \* how the last categorize call ended; "none" once a
                   \* handler has edited the store since
  last_edit,       \* the override the dashboard applied last, and the
                   \* category it showed as current
  call,            \* a call of one function on its own: [fn, arg]
  returned,        \* the values that call has returned so far
  sessions         \* the dashboard sessions applying an override step by
                   \* step: for each its position, its edit and the dict it
                   \* holds

vars == <<df, overrides_json, one_off_csv, cat_csv, pc, out, merchant_map,
          one_off_map, categories, sources, error, last_edit, call, returned,
          sessions>>

\* what the categorization pipeline leaves alone
call_vars == <<call, returned, sessions>>

(* ------------------------------ characters ------------------------------ *)

UPPER == <<"A","B","C","D","E","F","G","H","I","J","K","L","M",
           "N","O","P","Q","R","S","T","U","V","W","X","Y","Z">>
LOWER == <<"a","b","c","d","e","f","g","h","i","j","k","l","m",
           "n","o","p","q","r","s","t","u","v","w","x","y","z">>
DIGITS == {"0","1","2","3","4","5","6","7","8","9"}

Range(f) == { f[i] : i \in DOMAIN f }
UpperSet == Range(UPPER)
LowerSet == Range(LOWER)
\* the lower-case letter of each upper-case one
LowerOf == [c \in UpperSet |-> LOWER[CHOOSE i \in DOMAIN UPPER : UPPER[i] = c]]

\* str.lower() on one character
ToLower(c) ==
  IF c \in UpperSet THEN LowerOf[c] ELSE c

\* \s of the regular expressions and of str.strip()/str.split()
IsSpace(c) == c \in {" ", "\t"}
\* the class [\s\-_/]
IsSep(c) == IsSpace(c) \/ c \in {"-", "_", "/"}
\* \w
IsWord(c) == c \in UpperSet \/ c \in LowerSet \/ c \in DIGITS \/ c = "_"

(* ----------------------------- missing cells ---------------------------- *)

NaN == <<"NaN">>
None == <<"None">>
isna(v) == v = NaN \/ v = None

\* str(v): the text of a cell
Str(v) ==
  IF v = NaN THEN <<"n","a","n">>
  ELSE IF v = None THEN <<"N","o","n","e">>
  ELSE v

(* ---------------------------- string methods ---------------------------- *)

Lower(s) == [i \in 1..Len(s) |-> ToLower(s[i])]

Strip(s) ==
  LET keep == { i \in 1..Len(s) : ~IsSpace(s[i]) }
  IN  IF keep = {} THEN <<>>
      ELSE LET lo == CHOOSE i \in keep : \A j \in keep : i <= j
               hi == CHOOSE i \in keep : \A j \in keep : j <= i
           IN  SubSeq(s, lo, hi)

RECURSIVE Split(_)
\* str.split(): the maximal runs of non-space characters
Split(s) ==
  IF s = <<>> THEN <<>>
  ELSE IF IsSpace(s[1]) THEN Split(Tail(s))
  ELSE LET stops == { i \in 1..Len(s) : IsSpace(s[i]) }
           n == IF stops = {} THEN Len(s)
                ELSE (CHOOSE i \in stops : \A j \in stops : i <= j) - 1
       IN  <<SubSeq(s, 1, n)>> \o Split(SubSeq(s, n + 1, Len(s)))

RECURSIVE Join(_)
\* " ".join(tokens)
Join(tokens) ==
  IF tokens = <<>> THEN <<>>
  ELSE IF Len(tokens) = 1 THEN tokens[1]
  ELSE tokens[1] \o <<" ">> \o Join(Tail(tokens))

\* needle in hay
Contains(hay, needle) ==
  \E i \in 0..(Len(hay) - Len(needle)) : SubSeq(hay, i + 1, i + Len(needle)) = needle

(* ---------------------------- category names ---------------------------- *)

Bills == <<"B","i","l","l","s">>
Dining == <<"D","i","n","i","n","g">>
EXCLUDE == <<"E","X","C","L","U","D","E">>
Education == <<"E","d","u","c","a","t","i","o","n">>
Entertainment == <<"E","n","t","e","r","t","a","i","n","m","e","n","t">>
Finance == <<"F","i","n","a","n","c","e">>
Groceries == <<"G","r","o","c","e","r","i","e","s">>
Health == <<"H","e","a","l","t","h">>
Home == <<"H","o","m","e">>
Other == <<"O","t","h","e","r">>
Personal == <<"P","e","r","s","o","n","a","l">>
Shopping == <<"S","h","o","p","p","i","n","g">>
Transfer == <<"T","r","a","n","s","f","e","r">>
Travel == <<"T","r","a","v","e","l">>

(* ------------------------------ rule tables ------------------------------ *)

\* dict literals keep their insertion order: a sequence of <<key, value>>
KEYWORD_RULES ==
  << <<<<"w","h","o","l","e"," ","f","o","o","d","s">>, Groceries>>,
     <<<<"t","r","a","d","e","r"," ","j","o","e">>, Groceries>>,
     <<<<"a","l","d","i">>, Groceries>>,
     <<<<"k","r","o","g","e","r">>, Groceries>>,
     <<<<"i","n","s","t","a","c","a","r","t">>, Groceries>>,
     <<<<"s","t","a","r","b","u","c","k","s">>, Dining>>,
     <<<<"d","u","n","k","i","n">>, Dining>>,
     <<<<"c","h","i","p","o","t","l","e">>, Dining>>,
     <<<<"u","b","e","r","e","a","t","s">>, Dining>>,
     <<<<"d","o","o","r","d","a","s","h">>, Dining>>,
     <<<<"u","b","e","r">>, Travel>>,
     <<<<"l","y","f","t">>, Travel>>,
     <<<<"s","h","e","l","l">>, Travel>>,
     <<<<"c","h","e","v","r","o","n">>, Travel>>,
     <<<<"e","x","x","o","n">>, Travel>>,
     <<<<"b","p">>, Travel>>,
     <<<<"a","m","a","z","o","n">>, Shopping>>,
     <<<<"t","a","r","g","e","t">>, Shopping>>,
     <<<<"w","a","l","m","a","r","t">>, Shopping>>,
     <<<<"i","k","e","a">>, Shopping>>,
     <<<<"n","e","t","f","l","i","x">>, Entertainment>>,
     <<<<"s","p","o","t","i","f","y">>, Entertainment>>,
     <<<<"h","u","l","u">>, Entertainment>> >>
BANK_CAT_MAP ==
  << <<<<"f","o","o","d"," "," ","d","r","i","n","k">>, Dining>>,
     <<<<"r","e","s","t","a","u","r","a","n","t","s">>, Dining>>,
     <<<<"d","i","n","i","n","g"," ","o","u","t">>, Dining>>,
     <<<<"c","o","f","f","e","e">>, Dining>>,
     <<<<"g","r","o","c","e","r","i","e","s">>, Groceries>>,
     <<<<"s","u","p","e","r","m","a","r","k","e","t","s">>, Groceries>>,
     <<<<"b","i","l","l","s"," "," ","u","t","i","l","i","t","i","e","s">>, Bills>>,
     <<<<"u","t","i","l","i","t","i","e","s">>, Bills>>,
     <<<<"i","n","t","e","r","n","e","t">>, Bills>>,
     <<<<"m","o","b","i","l","e">>, Bills>>,
     <<<<"t","r","a","n","s","p","o","r","t","a","t","i","o","n">>, Travel>>,
     <<<<"t","r","a","n","s","p","o","r","t">>, Travel>>,
     <<<<"g","a","s">>, Travel>>,
     <<<<"f","u","e","l">>, Travel>>,
     <<<<"r","i","d","e","s","h","a","r","e">>, Travel>>,
     <<<<"e","n","t","e","r","t","a","i","n","m","e","n","t">>, Entertainment>>,
     <<<<"s","u","b","s","c","r","i","p","t","i","o","n","s">>, Entertainment>>,
     <<<<"s","t","r","e","a","m","i","n","g">>, Entertainment>>,
     <<<<"s","h","o","p","p","i","n","g">>, Shopping>>,
     <<<<"r","e","t","a","i","l">>, Shopping>>,
     <<<<"e","l","e","c","t","r","o","n","i","c","s">>, Shopping>>,
     <<<<"h","e","a","l","t","h"," "," ","w","e","l","l","n","e","s","s">>, Health>>,
     <<<<"h","e","a","l","t","h">>, Health>>,
     <<<<"p","h","a","r","m","a","c","y">>, Health>>,
     <<<<"h","o","m","e">>, Home>>,
     <<<<"r","e","n","t">>, Home>>,
     <<<<"e","d","u","c","a","t","i","o","n">>, Education>>,
     <<<<"p","r","o","f","e","s","s","i","o","n","a","l"," ","s","e","r","v","i","c","e","s">>, Bills>>,
     <<<<"p","e","r","s","o","n","a","l">>, Personal>>,
     <<<<"g","i","f","t","s"," "," ","d","o","n","a","t","i","o","n","s">>, Shopping>>,
     <<<<"f","i","n","a","n","c","e">>, Finance>>,
     <<<<"f","e","e","s">>, Finance>>,
     <<<<"t","r","a","v","e","l">>, Travel>> >>
BANK_UNKNOWN ==
  { <<>>,
    <<"n","a","n">>,
    <<"n","o","n","e">>,
    <<"u","n","c","a","t","e","g","o","r","i","z","e","d">>,
    <<"u","n","k","n","o","w","n">>,
    <<"o","t","h","e","r">>,
    <<"m","i","s","c">>,
    <<"m","i","s","c","e","l","l","a","n","e","o","u","s">> }
(* ----------------------------- text normalizer --------------------------- *)

RECURSIVE CollapseSeps(_)
\* re.sub(r"[\s\-_/]+", " ", s)
CollapseSeps(s) ==
  IF s = <<>> THEN <<>>
  ELSE IF IsSep(s[1])
       THEN LET rest == { i \in 1..Len(s) : ~IsSep(s[i]) }
                n == IF rest = {} THEN Len(s) + 1
                     ELSE CHOOSE i \in rest : \A j \in rest : i <= j
            IN  <<" ">> \o CollapseSeps(SubSeq(s, n, Len(s)))
       ELSE <<s[1]>> \o CollapseSeps(Tail(s))

\* re.sub(r"[^\w\s+]", "", s)
StripPunct(s) == SelectSeq(s, LAMBDA c : IsWord(c) \/ IsSpace(c) \/ c = "+")

clean_string(s) == StripPunct(CollapseSeps(Lower(Strip(Str(s)))))

(* ---------------------------- merchant extractor ------------------------- *)

words_to_skip ==
  { <<"p","u","r","c","h","a","s","e">>, <<"p","o","s">>, <<"c","a","r","d">>,
    <<"d","e","b","i","t">>, <<"c","r","e","d","i","t">>, <<"s","a","l","e">>,
    <<"o","n","l","i","n","e">>, <<"p","a","y","m","e","n","t">>,
    <<"v","e","n","m","o">>, <<"z","e","l","l","e">> }

\* re.sub(r"\d+", "", t)
StripDigits(t) == SelectSeq(t, LAMBDA c : c \notin DIGITS)

TakeFirst(s, n) == SubSeq(s, 1, IF Len(s) < n THEN Len(s) ELSE n)

get_merchant_name(desc) ==
  LET tokens == SelectSeq(Split(desc), LAMBDA t : t \notin words_to_skip)
      tokens_clean == [i \in 1..Len(tokens) |-> StripDigits(tokens[i])]
      result == Strip(Join(tokens_clean))
      parts == TakeFirst(Split(result), 3)
  IN  Join(parts)

(* ------------------------------- dictionaries ---------------------------- *)

\* A dict is the sequence of its <<key, value>> items in insertion order.
DictKeys(d) == { d[i][1] : i \in DOMAIN d }
DictHas(d, k) == \E i \in DOMAIN d : d[i][1] = k
DictGet(d, k) == d[CHOOSE i \in DOMAIN d : d[i][1] = k][2]
\* d[k] = v: an existing key keeps its place, a new one goes last
DictSet(d, k, v) ==
  IF DictHas(d, k)
  THEN [i \in DOMAIN d |-> IF d[i][1] = k THEN <<k, v>> ELSE d[i]]
  ELSE Append(d, <<k, v>>)

\* the truth value of a str-or-None
Truthy(x) == x # None /\ x # <<>>

(* --------------------------- bank-category mapper ------------------------ *)

clean_bank_category(bank_cat) ==
  IF isna(bank_cat) THEN <<>>
  ELSE LET cleaned == clean_string(bank_cat)
       IN  IF cleaned \in BANK_UNKNOWN THEN <<>>
           ELSE IF DictHas(BANK_CAT_MAP, cleaned) THEN DictGet(BANK_CAT_MAP, cleaned)
           ELSE Strip(Str(bank_cat))

(* ------------------------------ keyword layer ---------------------------- *)

\* the first keyword of the table, in table order, contained in the text
\* match_keyword returning the category of the last keyword found
match_keyword_last(text) ==
  LET text_lower == Lower(text)
      hits == { i \in DOMAIN KEYWORD_RULES : Contains(text_lower, KEYWORD_RULES[i][1]) }
  IN  IF hits = {} THEN None
      ELSE KEYWORD_RULES[CHOOSE i \in hits : \A j \in hits : i >= j][2]

match_keyword(text) ==
  LET text_lower == Lower(text)
      hits == { i \in DOMAIN KEYWORD_RULES : Contains(text_lower, KEYWORD_RULES[i][1]) }
  IN  IF hits = {} THEN None
      ELSE KEYWORD_RULES[CHOOSE i \in hits : \A j \in hits : i <= j][2]

(* ------------------------------- fuzzy layer ----------------------------- *)

Max(a, b) == IF a >= b THEN a ELSE b

RECURSIVE LcsRow(_, _, _, _)
\* one row of the longest-common-subsequence table: acc[j] for b[1..j]
LcsRow(prev, c, b, acc) ==
  IF Len(acc) = Len(b) THEN acc
  ELSE LET j == Len(acc) + 1
           diag == IF j = 1 THEN 0 ELSE prev[j - 1]
           left == IF j = 1 THEN 0 ELSE acc[j - 1]
       IN  LcsRow(prev, c, b,
                  Append(acc, IF b[j] = c THEN diag + 1 ELSE Max(prev[j], left)))

RECURSIVE LcsRows(_, _, _)
LcsRows(a, b, prev) ==
  IF a = <<>> THEN prev ELSE LcsRows(Tail(a), b, LcsRow(prev, a[1], b, <<>>))

Lcs(a, b) ==
  IF a = <<>> \/ b = <<>> THEN 0
  ELSE LcsRows(a, b, [j \in 1..Len(b) |-> 0])[Len(b)]

\* fuzz.ratio as the fraction <<2 * lcs, len(a) + len(b)>> of 100
Ratio(a, b) == <<2 * Lcs(a, b), Len(a) + Len(b)>>

FracLess(x, y) == x[1] * y[2] < y[1] * x[2]

\* The windows of the longer string that fuzz.partial_ratio aligns the shorter
\* one with: every window of its length, and the shorter prefixes and suffixes.
Windows(n, long) ==
  { SubSeq(long, 1, i) : i \in 1..(n - 1) } \cup
  { SubSeq(long, i + 1, i + n) : i \in 0..(Len(long) - n) } \cup
  { SubSeq(long, i, Len(long)) : i \in (Len(long) - n + 2)..Len(long) }

\* fuzz.partial_ratio(s1, s2) as a fraction of 100
partial_ratio(s1, s2) ==
  IF s1 = <<>> /\ s2 = <<>> THEN <<1, 1>>
  ELSE IF s1 = <<>> \/ s2 = <<>> THEN <<0, 1>>
  ELSE LET short == IF Len(s1) <= Len(s2) THEN s1 ELSE s2
           long == IF Len(s1) <= Len(s2) THEN s2 ELSE s1
           scores == { Ratio(short, w) : w \in Windows(Len(short), long) } \cup
                     IF Len(s1) = Len(s2)
                     THEN { Ratio(long, w) : w \in Windows(Len(long), short) }
                     ELSE {}
       IN  CHOOSE x \in scores : \A y \in scores : ~FracLess(x, y)

FUZZY_THRESHOLD == 90

\* process.extractOne keeps the first choice with the highest score
fuzzy_match(text) ==
  LET score == [i \in DOMAIN KEYWORD_RULES |-> partial_ratio(text, KEYWORD_RULES[i][1])]
      best == CHOOSE i \in DOMAIN score :
                /\ \A j \in DOMAIN score : ~FracLess(score[i], score[j])
                /\ \A j \in 1..(i - 1) : FracLess(score[j], score[i])
  IN  IF 100 * score[best][1] >= FUZZY_THRESHOLD * score[best][2]
      THEN KEYWORD_RULES[best][2]
      ELSE None

(* ------------------------------ cells of a row --------------------------- *)

\* A timestamp is a calendar day and a time of day; NaT is the missing date.
NaT == [day |-> 0, tod |-> 0]
\* An amount cell: a number in thousandths of the currency unit (k = "num"),
\* the float nan (k = "nan"), or text that is no number (k = "str").
Num(n) == [k |-> "num", v |-> n]
AmtNaN == [k |-> "nan", v |-> 0]
AmtText == [k |-> "str", v |-> 0]

Abs(n) == IF n < 0 THEN 0 - n ELSE n

\* f"{x:.2f}": the sign and the hundredths, rounded from the thousandths
Format2f(a) ==
  IF a.k = "nan" THEN <<"nan", 0>>
  ELSE <<IF a.v < 0 THEN "-" ELSE "", (Abs(a.v) + 5) \div 10>>

(* ------------------------------ transaction id --------------------------- *)

\* pd.to_datetime(NaT).strftime and float("text") raise
make_txn_id_raises(row) == row.date = NaT \/ row.amount_signed.k = "str"

\* make_txn_id hashing the description as written, not normalized
make_txn_id_raw(row) ==
  <<row.date.day, Format2f(row.amount_signed), Str(row.description)>>

\* SHA-1 is taken to be injective on the combined text, so the id is modelled
\* by the triple the combined text is made of.
make_txn_id(row) ==
  LET date_str == row.date.day
      amt_str == Format2f(row.amount_signed)
      desc == clean_string(row.description)
  IN  <<date_str, amt_str, desc>>

(* -------------------------------- rule store ----------------------------- *)

\* A file is missing, unreadable as its format ("corrupt"), or holds a dict.
MissingFile == [state |-> "missing", data |-> <<>>]
CorruptFile == [state |-> "corrupt", data |-> <<>>]
FileOf(d) == [state |-> "ok", data |-> d]

RECURSIVE Canonicalize(_, _)
\* result[clean_string(k)] = v for the items in file order
Canonicalize(items, result) ==
  IF items = <<>> THEN result
  ELSE Canonicalize(Tail(items), DictSet(result, clean_string(items[1][1]), items[1][2]))

\* load_overrides answering from the dict it loaded before, when it has one
load_overrides_cached(file) ==
  IF merchant_map # <<>> THEN merchant_map
  ELSE IF file.state = "ok" THEN Canonicalize(file.data, <<>>) ELSE <<>>

\* the dict load_overrides returns
load_overrides(file) ==
  IF file.state = "ok" THEN Canonicalize(file.data, <<>>) ELSE <<>>

\* the file load_overrides leaves behind: a missing one is created empty
load_overrides_file(file) ==
  IF file.state = "missing" THEN FileOf(<<>>) ELSE file

load_one_off(file) ==
  IF file.state = "ok" THEN file.data ELSE <<>>

load_one_off_file(file) ==
  IF file.state = "missing" THEN FileOf(<<>>) ELSE file

check_merchant_override(merchant, override_map) ==
  IF DictHas(override_map, merchant) THEN DictGet(override_map, merchant)
  ELSE LET hits == { i \in DOMAIN override_map :
                       /\ override_map[i][1] # <<>>
                       /\ Contains(merchant, override_map[i][1]) }
       IN  IF hits = {} THEN None
           ELSE override_map[CHOOSE i \in hits : \A j \in hits : i <= j][2]

(* --------------------------------- inputs -------------------------------- *)

MaxRows == 2
MaxRules == 2
MaxOneOff == 1

D_STARBUCKS == <<"S","T","A","R","B","U","C","K","S"," ","S","T","O","R","E"," ","1","2","3">>
D_STARBUCKS_SHORT == <<"S","T","A","R","B","U","C","K","S">>
D_STARBUCKS_ALT == <<"S","t","a","r","b","u","c","k","s","-","S","t","o","r","e"," ","#","1","2","3">>
D_WHOLEFOODS == <<"W","H","O","L","E","F","O","O","D","S">>
D_PARKING == <<"C","I","T","Y"," ","P","A","R","K","I","N","G">>

B_HEALTH == <<"H","e","a","l","t","h">>
B_RESTAURANTS == <<"R","e","s","t","a","u","r","a","n","t","s">>
B_PETS == <<" ","P","e","t","s">>

Morning == [day |-> 1, tod |-> 0]
Evening == [day |-> 1, tod |-> 1]

\* clean_transactions without the clip: amount_spend = -amount_signed
Spend_unclipped(a) == IF a.k = "num" THEN Num(0 - a.v) ELSE a

\* clean_transactions: amount_spend = (-amount_signed).clip(lower=0)
Spend(a) == IF a.k = "num" THEN Num(IF a.v < 0 THEN 0 - a.v ELSE 0) ELSE a

Row(date, description, amount, bank) ==
  [date |-> date, description |-> description, amount_signed |-> amount,
   amount_spend |-> Spend(amount), bank_category |-> bank]

\* The rows a batch is drawn from.  No amount is a tie of the rounding to
\* hundredths.
Rows ==
  { Row(Morning, D_STARBUCKS, Num(-5750), NaN),
    Row(Morning, D_STARBUCKS_SHORT, Num(-5750), NaN),
    Row(Evening, D_STARBUCKS_ALT, Num(-5751), NaN),
    Row(Morning, D_STARBUCKS, Num(-5750), B_HEALTH),
    Row(Morning, D_WHOLEFOODS, Num(-5750), NaN),
    Row(Morning, D_PARKING, Num(-5750), B_PETS),
    Row(Morning, D_PARKING, Num(-5750), NaN),
    Row(Morning, D_STARBUCKS, Num(1200000), B_RESTAURANTS),
    Row(NaT, D_PARKING, Num(-5750), NaN),
    Row(Morning, D_PARKING, AmtText, NaN),
    Row(Morning, NaN, AmtNaN, B_RESTAURANTS) }

RECURSIVE SeqsUpTo(_, _)
SeqsUpTo(S, n) ==
  IF n = 0 THEN { <<>> }
  ELSE LET shorter == SeqsUpTo(S, n - 1)
       IN  shorter \cup { Append(q, x) : q \in { r \in shorter : Len(r) = n - 1 }, x \in S }

MANDATORY == {"date", "description", "amount_spend", "amount_signed"}
ALL_COLUMNS == MANDATORY \cup {"bank_category"}

ColumnSets == { ALL_COLUMNS, MANDATORY, ALL_COLUMNS \ {"amount_spend"} }

K_STARBUCKS_RAW == <<"S","T","A","R","B","U","C","K","S">>
K_STORE == <<"s","t","o","r","e">>
K_CITY == <<"c","i","t","y"," ","p","a","r","k","i","n","g">>

\* The overrides.json a run may find: absent, not JSON, or written by hand.
InitialOverrideFiles ==
  { MissingFile, CorruptFile,
    FileOf(<< <<K_STARBUCKS_RAW, Shopping>> >>),
    FileOf(<< <<K_STORE, <<>> >>, <<K_CITY, Travel>> >>) }

\* The one_off_overrides.csv a run may find; the hand-written one names the
\* id of the deposit row.
InitialOneOffFiles ==
  { MissingFile, CorruptFile,
    FileOf(<< <<make_txn_id(Row(Morning, D_STARBUCKS, Num(1200000), B_RESTAURANTS)),
                Travel>> >>) }

(* -------------------------- categorization engine ------------------------ *)

\* the haystack of the keyword and fuzzy layers
Haystack(row) == Strip(row.description_norm \o <<" ">> \o row.merchant)

\* lines 225-238: the derived columns of one row
Normalize(row, columns) ==
  LET description_norm == clean_string(row.description)
  IN  [date |-> row.date, description |-> row.description,
       amount_signed |-> row.amount_signed, amount_spend |-> row.amount_spend,
       bank_category |-> row.bank_category,
       description_norm |-> description_norm,
       merchant |-> get_merchant_name(description_norm),
       bank_category_clean |->
         IF "bank_category" \in columns
         THEN clean_bank_category(row.bank_category) ELSE <<>>,
       txn_id |-> make_txn_id(row)]

\* match_keyword and fuzzy_match over the haystacks of the model's rows,
\* computed once
Haystacks == { Haystack(Normalize(r, ALL_COLUMNS)) : r \in Rows }
KeywordTable == [t \in Haystacks |-> match_keyword(t)]
FuzzyTable == [t \in Haystacks |-> fuzzy_match(t)]

\* the derived columns of the model's rows, computed once
NormTable == [r \in Rows |-> [c \in ColumnSets |-> Normalize(r, c)]]

\* float(row.get("amount_signed") or 0) > 0, a ValueError swallowed
IsCredit(row) == row.amount_signed.k = "num" /\ row.amount_signed.v > 0

\* decide_category, lines 188-213: the layers below the one-off override
LowerLayers(row, overrides) ==
  LET hit == check_merchant_override(row.merchant, overrides)
      bank_cat == row.bank_category_clean
      text == Haystack(row)
      cat == KeywordTable[text]
      fuzzy == FuzzyTable[text]
  IN  IF Truthy(hit) THEN <<hit, "merchant">>
      ELSE IF Truthy(bank_cat)
      THEN IF Lower(bank_cat) = <<"h","e","a","l","t","h">>
           THEN <<Groceries, "bank">>
           ELSE <<bank_cat, "bank">>
      ELSE IF Truthy(cat) THEN <<cat, "rule">>
      ELSE IF Truthy(fuzzy) THEN <<fuzzy, "fuzzy">>
      ELSE <<Other, "other">>

\* decide_category with the one-off lookup moved above the credit test
decide_category_one_off_first(row, one_off, overrides) ==
  IF DictHas(one_off, row.txn_id)
  THEN <<DictGet(one_off, row.txn_id), "one_off">>
  ELSE IF IsCredit(row) THEN <<EXCLUDE, "credit">>
  ELSE LowerLayers(row, overrides)

\* decide_category with the merchant override moved above the one-off lookup
decide_category_merchant_first(row, one_off, overrides) ==
  LET hit == check_merchant_override(row.merchant, overrides)
  IN  IF IsCredit(row) THEN <<EXCLUDE, "credit">>
      ELSE IF Truthy(hit) THEN <<hit, "merchant">>
      ELSE IF DictHas(one_off, row.txn_id)
      THEN <<DictGet(one_off, row.txn_id), "one_off">>
      ELSE LowerLayers(row, overrides)

\* decide_category with the keyword rule moved above the bank category
decide_category_keyword_first(row, one_off, overrides) ==
  LET hit == check_merchant_override(row.merchant, overrides)
      cat == KeywordTable[Haystack(row)]
  IN  IF IsCredit(row) THEN <<EXCLUDE, "credit">>
      ELSE IF DictHas(one_off, row.txn_id)
      THEN <<DictGet(one_off, row.txn_id), "one_off">>
      ELSE IF Truthy(hit) THEN <<hit, "merchant">>
      ELSE IF Truthy(cat) THEN <<cat, "rule">>
      ELSE LowerLayers(row, overrides)

\* decide_category taking a missing amount for a credit
decide_category_missing_amount_credit(row, one_off, overrides) ==
  IF IsCredit(row) \/ row.amount_signed.k = "nan" THEN <<EXCLUDE, "credit">>
  ELSE IF DictHas(one_off, row.txn_id)
  THEN <<DictGet(one_off, row.txn_id), "one_off">>
  ELSE LowerLayers(row, overrides)

decide_category(row, one_off, overrides) ==
  IF IsCredit(row) THEN <<EXCLUDE, "credit">>
  ELSE IF DictHas(one_off, row.txn_id)
  THEN <<DictGet(one_off, row.txn_id), "one_off">>
  ELSE LowerLayers(row, overrides)

(* ------------------------------ state machine ---------------------------- *)

NoFrame == [exists |-> FALSE, rows |-> <<>>]
NoCall == [fn |-> "none", arg |-> <<>>]
\* no dashboard session is applying an override step by step
NoSessions == <<>>

NoEdit == [kind |-> "none", key |-> <<>>, category |-> <<>>, before |-> <<>>]

Init ==
  /\ df \in [columns : ColumnSets, rows : SeqsUpTo(Rows, MaxRows) \ { <<>> }]
  /\ overrides_json \in InitialOverrideFiles
  /\ one_off_csv \in InitialOneOffFiles
  /\ cat_csv = NoFrame
  /\ pc = "idle"
  /\ out = <<>>
  /\ merchant_map = <<>>
  /\ one_off_map = <<>>
  /\ categories = <<>>
  /\ sources = <<>>
  /\ error = "none"
  /\ last_edit = NoEdit
  /\ call = NoCall
  /\ returned = <<>>
  /\ sessions = NoSessions

\* categorize loading the override maps before it checks the columns
CategorizeStart_load_first ==
  /\ pc \in {"idle", "call"}
  /\ merchant_map' = load_overrides(overrides_json)
  /\ overrides_json' = load_overrides_file(overrides_json)
  /\ one_off_map' = load_one_off(one_off_csv)
  /\ one_off_csv' = load_one_off_file(one_off_csv)
  /\ IF ~(MANDATORY \subseteq df.columns)
     THEN /\ error' = "ValueError"
          /\ pc' = "idle"
          /\ UNCHANGED out
     ELSE IF \E i \in DOMAIN df.rows : make_txn_id_raises(df.rows[i])
     THEN /\ error' = "TxnIdError"
          /\ pc' = "idle"
          /\ UNCHANGED out
     ELSE /\ out' = [i \in DOMAIN df.rows |-> NormTable[df.rows[i]][df.columns]]
          /\ pc' = "rows"
          /\ UNCHANGED error
  /\ categories' = <<>>
  /\ sources' = <<>>
  /\ UNCHANGED <<df, cat_csv, last_edit>>
  /\ UNCHANGED call_vars

\* categorize with loaders that let the error of an unreadable file escape
CategorizeStart_store_raises ==
  /\ pc \in {"idle", "call"}
  /\ IF ~(MANDATORY \subseteq df.columns)
     THEN /\ error' = "ValueError"
          /\ pc' = "idle"
          /\ UNCHANGED <<overrides_json, one_off_csv, out, merchant_map, one_off_map>>
     ELSE IF \E i \in DOMAIN df.rows : make_txn_id_raises(df.rows[i])
     THEN /\ error' = "TxnIdError"
          /\ pc' = "idle"
          /\ UNCHANGED <<overrides_json, one_off_csv, out, merchant_map, one_off_map>>
     ELSE IF overrides_json.state = "corrupt" \/ one_off_csv.state = "corrupt"
     THEN /\ error' = "StoreError"
          /\ pc' = "idle"
          /\ UNCHANGED <<overrides_json, one_off_csv, out, merchant_map, one_off_map>>
     ELSE /\ out' = [i \in DOMAIN df.rows |-> NormTable[df.rows[i]][df.columns]]
          /\ merchant_map' = load_overrides(overrides_json)
          /\ overrides_json' = load_overrides_file(overrides_json)
          /\ one_off_map' = load_one_off(one_off_csv)
          /\ one_off_csv' = load_one_off_file(one_off_csv)
          /\ pc' = "rows"
          /\ UNCHANGED error
  /\ categories' = <<>>
  /\ sources' = <<>>
  /\ UNCHANGED <<df, cat_csv, last_edit>>
  /\ UNCHANGED call_vars

\* categorize, lines 216-242: the column check, the derived columns, the
\* transaction ids and the load of the two override maps
CategorizeStart ==
  /\ pc \in {"idle", "call"}
  /\ IF ~(MANDATORY \subseteq df.columns)
     THEN /\ error' = "ValueError"
          /\ pc' = "idle"
          /\ UNCHANGED <<overrides_json, one_off_csv, out, merchant_map, one_off_map>>
     ELSE IF \E i \in DOMAIN df.rows : make_txn_id_raises(df.rows[i])
     THEN /\ error' = "TxnIdError"
          /\ pc' = "idle"
          /\ UNCHANGED <<overrides_json, one_off_csv, out, merchant_map, one_off_map>>
     ELSE /\ out' = [i \in DOMAIN df.rows |-> NormTable[df.rows[i]][df.columns]]
          /\ merchant_map' = load_overrides(overrides_json)
          /\ overrides_json' = load_overrides_file(overrides_json)
          /\ one_off_map' = load_one_off(one_off_csv)
          /\ one_off_csv' = load_one_off_file(one_off_csv)
          /\ pc' = "rows"
          /\ UNCHANGED error
  /\ categories' = <<>>
  /\ sources' = <<>>
  /\ UNCHANGED <<df, cat_csv, last_edit>>
  /\ UNCHANGED call_vars

\* the loop deciding each row against the files as they are at that turn
DecideRow_reload ==
  /\ pc = "rows"
  /\ Len(categories) < Len(out)
  /\ LET decided == decide_category(out[Len(categories) + 1],
                                    load_one_off(one_off_csv),
                                    load_overrides(overrides_json))
     IN  /\ categories' = Append(categories, decided[1])
         /\ sources' = Append(sources, decided[2])
  /\ UNCHANGED <<df, overrides_json, one_off_csv, cat_csv, pc, out, merchant_map,
                 one_off_map, error, last_edit>>
  /\ UNCHANGED call_vars

\* categorize, lines 247-250: one turn of the loop over the rows
DecideRow ==
  /\ pc = "rows"
  /\ Len(categories) < Len(out)
  /\ LET decided == decide_category(out[Len(categories) + 1], one_off_map, merchant_map)
     IN  /\ categories' = Append(categories, decided[1])
         /\ sources' = Append(sources, decided[2])
  /\ UNCHANGED <<df, overrides_json, one_off_csv, cat_csv, pc, out, merchant_map,
                 one_off_map, error, last_edit>>
  /\ UNCHANGED call_vars

\* the frame categorize returns: the working frame with the two new columns
Categorized ==
  [i \in DOMAIN out |->
     [date |-> out[i].date, description |-> out[i].description,
      amount_signed |-> out[i].amount_signed, amount_spend |-> out[i].amount_spend,
      bank_category |-> out[i].bank_category,
      description_norm |-> out[i].description_norm, merchant |-> out[i].merchant,
      bank_category_clean |-> out[i].bank_category_clean, txn_id |-> out[i].txn_id,
      category |-> categories[i], category_source |-> sources[i]]]

\* categorize, lines 252-264, and the caller's save of the returned frame:
\* out[final_cols] raises KeyError when the frame has no bank_category column
CategorizeFinish ==
  /\ pc = "rows"
  /\ Len(categories) = Len(out)
  /\ IF "bank_category" \in df.columns
     THEN /\ cat_csv' = [exists |-> TRUE, rows |-> Categorized]
          /\ error' = "ok"
     ELSE /\ error' = "KeyError"
          /\ UNCHANGED cat_csv
  /\ pc' = "idle"
  /\ out' = <<>>
  /\ categories' = <<>>
  /\ sources' = <<>>
  /\ UNCHANGED <<df, overrides_json, one_off_csv, merchant_map, one_off_map, last_edit>>
  /\ UNCHANGED call_vars

(* -------------------------------- dashboard ------------------------------ *)

normalize_merchant(merchant_name) ==
  StripPunct(CollapseSeps(Lower(Strip(Str(merchant_name)))))

\* app.py _load_overrides: the dict as stored, keys not canonicalized
app_load_overrides(file) == IF file.state = "ok" THEN file.data ELSE <<>>

\* the categories the selectboxes offer
all_categories ==
  { cat_csv.rows[i].category : i \in DOMAIN cat_csv.rows } \ { EXCLUDE }

\* the rows the settings tabs list: credits are left out
Listed == { i \in DOMAIN cat_csv.rows : cat_csv.rows[i].category # EXCLUDE }

\* settings tab, "Merchant Rules": load, set one key, save, then recompute
ApplyMerchantRule ==
  /\ pc = "idle"
  /\ cat_csv.exists
  /\ \E i \in Listed, new_cat \in all_categories :
       LET overrides == app_load_overrides(overrides_json)
           norm_merchant == normalize_merchant(cat_csv.rows[i].merchant)
           saved == DictSet(overrides, norm_merchant, new_cat)
       IN  /\ Len(saved) <= MaxRules
           /\ overrides_json' = FileOf(saved)
           /\ last_edit' = [kind |-> "merchant", key |-> norm_merchant,
                            category |-> new_cat,
                            before |-> cat_csv.rows[i].category]
  /\ pc' = "call"
  /\ error' = "none"
  /\ UNCHANGED <<df, one_off_csv, cat_csv, out, merchant_map, one_off_map,
                 categories, sources>>
  /\ UNCHANGED call_vars

\* settings tab, "One-Time Fixes": load, set one key, save, then recompute
ApplyOneOffFix ==
  /\ pc = "idle"
  /\ cat_csv.exists
  /\ \E i \in Listed, new_cat \in all_categories :
       LET one_off == load_one_off(one_off_csv)
           txn_id == cat_csv.rows[i].txn_id
           saved == DictSet(one_off, txn_id, new_cat)
       IN  /\ Len(saved) <= MaxOneOff
           /\ one_off_csv' = FileOf(saved)
           /\ last_edit' = [kind |-> "one_off", key |-> txn_id, category |-> new_cat,
                            before |-> cat_csv.rows[i].category]
  /\ pc' = "call"
  /\ error' = "none"
  /\ UNCHANGED <<df, overrides_json, cat_csv, out, merchant_map, one_off_map,
                 categories, sources>>
  /\ UNCHANGED call_vars

Next ==
  \/ CategorizeStart
  \/ DecideRow
  \/ CategorizeFinish
  \/ ApplyMerchantRule
  \/ ApplyOneOffFix

Spec == Init /\ [][Next]_vars

(* ------------------- a second session edits the store ------------------- *)

\* Another browser session shows the saved result and runs the same
\* handlers; the writes of its handlers (_save_overrides, _save_one_off_map)
\* can fall between two turns of this session's loop over the rows.  One
\* write falls within one call.
StoreAsLoaded ==
  /\ load_overrides(overrides_json) = merchant_map
  /\ load_one_off(one_off_csv) = one_off_map

OtherSessionMerchantRule ==
  /\ pc = "rows"
  /\ cat_csv.exists
  /\ StoreAsLoaded
  /\ \E i \in Listed, new_cat \in all_categories :
       LET overrides == app_load_overrides(overrides_json)
           norm_merchant == normalize_merchant(cat_csv.rows[i].merchant)
           saved == DictSet(overrides, norm_merchant, new_cat)
       IN  /\ Len(saved) <= MaxRules
           /\ overrides_json' = FileOf(saved)
  /\ UNCHANGED <<df, one_off_csv, cat_csv, pc, out, merchant_map, one_off_map,
                 categories, sources, error, last_edit>>
  /\ UNCHANGED call_vars

OtherSessionOneOffFix ==
  /\ pc = "rows"
  /\ cat_csv.exists
  /\ StoreAsLoaded
  /\ \E i \in Listed, new_cat \in all_categories :
       LET one_off == load_one_off(one_off_csv)
           txn_id == cat_csv.rows[i].txn_id
           saved == DictSet(one_off, txn_id, new_cat)
       IN  /\ Len(saved) <= MaxOneOff
           /\ one_off_csv' = FileOf(saved)
  /\ UNCHANGED <<df, overrides_json, cat_csv, pc, out, merchant_map, one_off_map,
                 categories, sources, error, last_edit>>
  /\ UNCHANGED call_vars

NextConcurrent ==
  \/ CategorizeStart
  \/ DecideRow
  \/ CategorizeFinish
  \/ OtherSessionMerchantRule
  \/ OtherSessionOneOffFix

SpecConcurrent == Init /\ [][NextConcurrent]_vars

(* --------------------------------- claims -------------------------------- *)

\* the rows of the current call that decide_category has decided
Decided == IF pc = "rows" THEN 1..Len(categories) ELSE {}

MerchantHit(i) == check_merchant_override(out[i].merchant, merchant_map)
KeywordHit(i) == KeywordTable[Haystack(out[i])]
FuzzyHit(i) == FuzzyTable[Haystack(out[i])]
HasOneOff(i) == out[i].txn_id \in DictKeys(one_off_map)

\* C1: a transaction with amount_signed > 0 is categorized EXCLUDE with source
\* credit, whatever the one-off overrides, the merchant overrides, the bank
\* category and the description are.
C1_CreditAlwaysExcluded ==
  \A i \in Decided :
    (out[i].amount_signed.k = "num" /\ out[i].amount_signed.v > 0)
      => categories[i] = EXCLUDE /\ sources[i] = "credit"

\* a deposit has been decided while a one-off override names its id, a
\* merchant override matches its merchant and its bank category is known
C1_Witness ==
  \E i \in Decided :
    /\ out[i].amount_signed.k = "num" /\ out[i].amount_signed.v > 0
    /\ HasOneOff(i)
    /\ MerchantHit(i) \notin {None, <<>>}
    /\ out[i].bank_category_clean # <<>>
    /\ KeywordHit(i) # None
    /\ sources[i] = "credit"

\* C2: a transaction that is no credit and whose txn_id is a key of the
\* one-off map gets that entry's category with source one_off, whatever the
\* lower layers would decide.
C2_OneOffWins ==
  \A i \in Decided :
    (~(out[i].amount_signed.k = "num" /\ out[i].amount_signed.v > 0) /\ HasOneOff(i))
      => /\ categories[i] = DictGet(one_off_map, out[i].txn_id)
         /\ sources[i] = "one_off"

\* a one-off override has decided a row that a merchant override mapping to
\* another category matches as well, and that has a bank category and a keyword
C2_Witness ==
  \E i \in Decided :
    /\ HasOneOff(i)
    /\ sources[i] = "one_off"
    /\ MerchantHit(i) \notin {None, <<>>, categories[i]}
    /\ out[i].bank_category_clean # <<>>
    /\ KeywordHit(i) # None

\* the layer that fires first below the one-off override; a layer fires when
\* its lookup yields a non-empty category
FirstLayer(i) ==
  IF MerchantHit(i) \notin {None, <<>>} THEN "merchant"
  ELSE IF out[i].bank_category_clean # <<>> THEN "bank"
  ELSE IF KeywordHit(i) # None THEN "rule"
  ELSE IF FuzzyHit(i) # None THEN "fuzzy"
  ELSE "other"

C4_BankCategoryVerbatim ==
  \A i \in Decided :
    ( /\ ~(out[i].amount_signed.k = "num" /\ out[i].amount_signed.v > 0)
      /\ ~HasOneOff(i)
      /\ MerchantHit(i) \in {None, <<>>}
      /\ out[i].bank_category_clean # <<>> )
      => categories[i] = out[i].bank_category_clean /\ sources[i] = "bank"

\* the override named k is the one check_merchant_override finds for merchant
\* m: m is the key itself, or contains it and no other key of the store
AppliesTo(k, m) ==
  \/ m = k
  \/ /\ k # <<>>
     /\ Contains(m, k)
     /\ \A k2 \in DictKeys(load_overrides(overrides_json)) \ {k, <<>>} : ~Contains(m, k2)

\* C5: an override added to the store between two runs takes effect in the
\* next run: once the run that follows an edit has ended, every row that is
\* no credit and that the new entry applies to (for a merchant rule: no
\* one-off override on the row, and the rule is the one found for its
\* merchant) carries the new category with the source of that layer.
C5_RuleReloaded ==
  (pc = "idle" /\ error = "ok" /\ last_edit.kind # "none") =>
    \A i \in DOMAIN cat_csv.rows :
      LET r == cat_csv.rows[i]
      IN  ~IsCredit(r) =>
            /\ (last_edit.kind = "one_off" /\ r.txn_id = last_edit.key)
                 => r.category = last_edit.category /\ r.category_source = "one_off"
            /\ ( /\ last_edit.kind = "merchant"
                 /\ r.txn_id \notin DictKeys(load_one_off(one_off_csv))
                 /\ AppliesTo(last_edit.key, r.merchant) )
                 => r.category = last_edit.category /\ r.category_source = "merchant"

\* the run after a merchant rule was applied has given a row of another
\* merchant, which contains the rule's key, a category other than the one the
\* dashboard showed before
C5_Witness ==
  /\ pc = "idle" /\ error = "ok" /\ last_edit.kind = "merchant"
  /\ last_edit.before # last_edit.category
  /\ \E i \in DOMAIN cat_csv.rows :
       /\ cat_csv.rows[i].merchant # last_edit.key
       /\ cat_csv.rows[i].category = last_edit.category
       /\ cat_csv.rows[i].category_source = "merchant"

\* C6: the txn_id of a row is determined by its calendar date, its amount as
\* formatted to two decimals and its normalized description, and a run that
\* follows a successful run with no edit of the store in between decides
\* every row exactly as the saved result has it.
C6_Deterministic ==
  /\ \A i, j \in DOMAIN out :
       ( /\ out[i].date.day = out[j].date.day
         /\ Format2f(out[i].amount_signed) = Format2f(out[j].amount_signed)
         /\ out[i].description_norm = out[j].description_norm )
         => out[i].txn_id = out[j].txn_id
  /\ (pc = "rows" /\ error = "ok") =>
       \A i \in Decided :
         /\ out[i].txn_id = cat_csv.rows[i].txn_id
         /\ categories[i] = cat_csv.rows[i].category
         /\ sources[i] = cat_csv.rows[i].category_source

\* a second run over a saved result has decided two rows that share an id
\* although their descriptions, amounts and times of day differ as written,
\* one of them by an override
C6_Witness ==
  /\ pc = "rows" /\ error = "ok" /\ Len(categories) = Len(out)
  /\ \E i, j \in Decided :
       /\ out[i].txn_id = out[j].txn_id
       /\ out[i].description # out[j].description
       /\ out[i].amount_signed # out[j].amount_signed
       /\ out[i].date # out[j].date
       /\ sources[i] \in {"one_off", "merchant"}

\* C7: an entry of the one-off map changes the category of at most one row of
\* the batch.
C7_OneOffChangesOneRow ==
  \A k \in DictKeys(one_off_map) :
    Cardinality({ i \in Decided : sources[i] = "one_off" /\ out[i].txn_id = k }) <= 1

\* C8: categorize on a batch that lacks a mandatory column ends with the
\* structural error at once: the override files are neither read nor
\* created, no row is processed and the saved result stays as it was.
C8_StructuralErrorFirst ==
  [][ (CategorizeStart /\ ~(MANDATORY \subseteq df.columns)) =>
        /\ error' = "ValueError"
        /\ pc' = "idle"
        /\ UNCHANGED <<overrides_json, one_off_csv, cat_csv, merchant_map,
                       one_off_map, out, categories, sources>> ]_vars

\* a call on a non-empty batch has ended with the structural error and both
\* override files are still absent
C8_Witness ==
  /\ error = "ValueError"
  /\ df.rows # <<>>
  /\ overrides_json = MissingFile
  /\ one_off_csv = MissingFile

\* a categorize call has ended, in success or in an exception
CallEnded == pc = "idle" /\ error # "none"

\* C9: on a batch with every column, categorize returns every row with a
\* category and a source, also when a row has a missing date, a missing or
\* non-numeric amount or a missing description.
C9_RowDefectsNeverAbort ==
  (CallEnded /\ df.columns = ALL_COLUMNS) =>
    error = "ok" /\ Len(cat_csv.rows) = Len(df.rows)

\* C10: on a batch with the four mandatory columns and no bank_category
\* column, whose rows are well formed, categorize succeeds and returns every
\* row with bank_category_clean empty and none decided by the bank layer.
C10_BankCategoryOptional ==
  ( /\ CallEnded
    /\ df.columns = MANDATORY
    /\ \A i \in DOMAIN df.rows : ~make_txn_id_raises(df.rows[i]) ) =>
    /\ error = "ok"
    /\ Len(cat_csv.rows) = Len(df.rows)
    /\ \A i \in DOMAIN cat_csv.rows :
         /\ cat_csv.rows[i].bank_category_clean = <<>>
         /\ cat_csv.rows[i].category_source # "bank"

\* the call gets past the column check and the transaction ids (lines
\* 219-238), so that it reaches the two loaders
ReachesLoaders ==
  /\ MANDATORY \subseteq df.columns
  /\ \A i \in DOMAIN df.rows : ~make_txn_id_raises(df.rows[i])

UnassistedSources == {"credit", "bank", "rule", "fuzzy", "other"}

C12_RunOnlyReads ==
  [][ (CategorizeStart \/ DecideRow \/ CategorizeFinish) =>
        UNCHANGED <<overrides_json, one_off_csv>> ]_vars

\* the decision the files as they are now would give row i
DecisionNow(i) ==
  decide_category(out[i], load_one_off(one_off_csv), load_overrides(overrides_json))

\* C13: the two maps are loaded once at the start of a call and stay as they
\* are until it returns: no step taken while the call is in progress changes
\* them, every decided row carries the decision the loaded maps give it, and
\* the saved result holds those decisions, also when another session has
\* edited the files in the meantime.
C13_SnapshotImmutable ==
  /\ [][ pc = "rows" => UNCHANGED <<merchant_map, one_off_map>> ]_vars
  /\ [](\A i \in Decided :
          <<categories[i], sources[i]>> = decide_category(out[i], one_off_map, merchant_map))
  /\ [][ (CategorizeFinish /\ "bank_category" \in df.columns) =>
           \A i \in DOMAIN out :
             <<cat_csv'.rows[i].category, cat_csv'.rows[i].category_source>>
               = decide_category(out[i], one_off_map, merchant_map) ]_vars

\* every row of a call is decided, the files were edited while it ran, and
\* the files as they are now would decide a row before the edit's turn and a
\* row after it otherwise than the call did
C13_Witness ==
  /\ pc = "rows" /\ Len(categories) = Len(out) /\ Len(out) >= 2
  /\ load_overrides(overrides_json) # merchant_map
  /\ DecisionNow(1) # <<categories[1], sources[1]>>
  /\ DecisionNow(Len(out)) # <<categories[Len(out)], sources[Len(out)]>>

SOURCES == {"credit", "one_off", "merchant", "bank", "rule", "fuzzy", "other"}

\* C14: every decided row and every row of the saved batch carries one
\* source out of credit, one_off, merchant, bank, rule, fuzzy and other; the
\* source is credit exactly when amount_signed > 0, source other comes with
\* category Other only, and each other source comes with the category its
\* layer gives the row.
C14_SourceNamesLayer ==
  /\ Len(sources) = Len(categories)
  /\ \A i \in Decided :
       /\ sources[i] \in SOURCES
       /\ sources[i] = "credit"
            <=> (out[i].amount_signed.k = "num" /\ out[i].amount_signed.v > 0)
       /\ sources[i] = "credit" => categories[i] = EXCLUDE
       /\ sources[i] = "one_off"
            => HasOneOff(i) /\ categories[i] = DictGet(one_off_map, out[i].txn_id)
       /\ sources[i] = "merchant" => categories[i] = MerchantHit(i)
       /\ sources[i] = "bank"
            => out[i].bank_category_clean # <<>>
               /\ categories[i] \in {out[i].bank_category_clean, Groceries}
       /\ sources[i] = "rule" => categories[i] = KeywordHit(i)
       /\ sources[i] = "fuzzy" => categories[i] = FuzzyHit(i)
       /\ sources[i] = "other" => categories[i] = Other
  /\ \A i \in DOMAIN cat_csv.rows :
       LET r == cat_csv.rows[i]
       IN  /\ r.category_source \in SOURCES
           /\ r.category_source = "credit"
                <=> (r.amount_signed.k = "num" /\ r.amount_signed.v > 0)
           /\ r.category_source = "other" => r.category = Other

\* the saved batch holds a deposit with source credit next to a row whose
\* amount is missing and whose source is another one
C14_Witness ==
  /\ cat_csv.exists
  /\ \E i, j \in DOMAIN cat_csv.rows :
       /\ cat_csv.rows[i].category_source = "credit"
       /\ cat_csv.rows[j].amount_signed.k = "nan"
       /\ cat_csv.rows[j].category_source \in SOURCES \ {"credit"}

(* ------------------------- functions called alone ----------------------- *)

MaxLen == 3
MaxTokens == 4
MaxWords == 2

\* texts for clean_string: a letter of each case, the blank, a separator, a
\* stripped punctuation character and the "+" that is kept
TextChars == {"a", "B", " ", "-", ".", "+"}
Texts == SeqsUpTo(TextChars, MaxLen)

\* normalized descriptions for get_merchant_name: up to MaxTokens tokens
MerchantTokens ==
  { <<"p","o","s">>,
    <<"p","o","s","1">>,
    <<"s","t","a","r","b","u","c","k","s">>,
    <<"1","2","3">>,
    <<"s","t","o","r","e">>,
    <<"w","a">> }
Descriptions == { Join(q) : q \in SeqsUpTo(MerchantTokens, MaxTokens) }

\* merchants and override maps for check_merchant_override: up to MaxRules
\* items with distinct keys, in insertion order
MerchantNames ==
  { <<"s","t","a","r","b","u","c","k","s">>,
    <<"s","t","a","r","b","u","c","k","s"," ","s","t","o","r","e">>,
    <<"c","i","t","y"," ","p","a","r","k","i","n","g">> }
OverrideKeys ==
  { <<>>,
    <<"s","t","a","r">>,
    <<"s","t","a","r","b","u","c","k","s">>,
    <<"s","t","o","r","e">> }
OverrideItems == OverrideKeys \X {Dining, Travel}
OverrideMaps ==
  { d \in SeqsUpTo(OverrideItems, MaxRules) :
      \A i, j \in DOMAIN d : i # j => d[i][1] # d[j][1] }

\* haystacks for match_keyword: up to MaxWords words
KeywordWords ==
  { <<"s","t","a","r","b","u","c","k","s">>,
    <<"u","b","e","r","e","a","t","s">>,
    <<"u","b","e","r">>,
    <<"T","a","r","g","e","t">>,
    <<"c","i","t","y">>,
    <<"b","p">> }
KeywordTexts == { Join(q) : q \in SeqsUpTo(KeywordWords, MaxWords) }

Calls ==
  [fn : {"clean_string"}, arg : Texts \cup {NaN, None}]
    \cup [fn : {"get_merchant_name"}, arg : Descriptions]
    \cup [fn : {"check_merchant_override"}, arg : MerchantNames \X OverrideMaps]
    \cup [fn : {"match_keyword"}, arg : KeywordTexts]

pipeline_vars == <<df, overrides_json, one_off_csv, cat_csv, pc, out, merchant_map,
                   one_off_map, categories, sources, error, last_edit>>

InitCalls ==
  /\ df = [columns |-> ALL_COLUMNS, rows |-> <<>>]
  /\ overrides_json = MissingFile
  /\ one_off_csv = MissingFile
  /\ cat_csv = NoFrame
  /\ pc = "idle"
  /\ out = <<>>
  /\ merchant_map = <<>>
  /\ one_off_map = <<>>
  /\ categories = <<>>
  /\ sources = <<>>
  /\ error = "none"
  /\ last_edit = NoEdit
  /\ call \in Calls
  /\ returned = <<>>
  /\ sessions = NoSessions

\* clean_string on the argument, then on what it returned
CallCleanString ==
  /\ call.fn = "clean_string"
  /\ Len(returned) < 2
  /\ returned' = Append(returned,
                        clean_string(IF returned = <<>> THEN call.arg
                                     ELSE returned[Len(returned)]))
  /\ UNCHANGED <<call, sessions, pipeline_vars>>

CallGetMerchantName ==
  /\ call.fn = "get_merchant_name"
  /\ returned = <<>>
  /\ returned' = <<get_merchant_name(call.arg)>>
  /\ UNCHANGED <<call, sessions, pipeline_vars>>

CallCheckMerchantOverride ==
  /\ call.fn = "check_merchant_override"
  /\ returned = <<>>
  /\ returned' = <<check_merchant_override(call.arg[1], call.arg[2])>>
  /\ UNCHANGED <<call, sessions, pipeline_vars>>

CallMatchKeyword ==
  /\ call.fn = "match_keyword"
  /\ returned = <<>>
  /\ returned' = <<match_keyword(call.arg)>>
  /\ UNCHANGED <<call, sessions, pipeline_vars>>

NextCalls ==
  \/ CallCleanString
  \/ CallGetMerchantName
  \/ CallCheckMerchantOverride
  \/ CallMatchKeyword

SpecCalls == InitCalls /\ [][NextCalls]_vars

\* C15: clean_string is idempotent: applied to its own result for any text,
\* it returns that result unchanged.
C15_CleanStringIdempotent ==
  (call.fn = "clean_string" /\ Len(returned) = 2) => returned[2] = returned[1]

\* C16: clean_string returns the empty string for a missing value (None or
\* NaN).
C16_MissingIsEmpty ==
  (call.fn = "clean_string" /\ isna(call.arg) /\ returned # <<>>)
    => returned[1] = <<>>

\* the items of override map d whose key is a text contained in merchant m;
\* the empty key names no merchant
ContainedKeys(m, d) == { i \in DOMAIN d : d[i][1] # <<>> /\ Contains(m, d[i][1]) }

\* C17: check_merchant_override returns the category of the earliest-inserted
\* key that is contained in (or equal to) the merchant, also when a later
\* key equals the merchant exactly, and None when no key is contained.
C17_FirstInsertedKeyWins ==
  (call.fn = "check_merchant_override" /\ returned # <<>>) =>
    LET m == call.arg[1]
        d == call.arg[2]
        hits == ContainedKeys(m, d)
    IN  returned[1] = IF hits = {} THEN None
                      ELSE d[CHOOSE i \in hits : \A j \in hits : i <= j][2]

\* the scenario's transaction after categorize's derived columns
ScenarioRow == Normalize(Row(Morning, D_STARBUCKS, Num(-5750), NaN), ALL_COLUMNS)

\* keyword number i of the table is a substring of the lower-cased text
KeywordIn(i, text) == Contains(Lower(text), KEYWORD_RULES[i][1])

\* C18: match_keyword returns the category of the first keyword, in the
\* order of the keyword table, that is a substring of the text, and None
\* when there is none; the transaction described "STARBUCKS STORE 123" with
\* amount -5.75, no override and no bank category has amount_spend 5.75, a
\* merchant containing "starbucks", category Dining and source rule.
C18_FirstKeywordWins ==
  /\ (call.fn = "match_keyword" /\ returned # <<>>) =>
       IF returned[1] = None
       THEN \A i \in DOMAIN KEYWORD_RULES : ~KeywordIn(i, call.arg)
       ELSE \E i \in DOMAIN KEYWORD_RULES :
              /\ KeywordIn(i, call.arg)
              /\ \A j \in 1..(i - 1) : ~KeywordIn(j, call.arg)
              /\ returned[1] = KEYWORD_RULES[i][2]
  /\ ScenarioRow.amount_spend = Num(5750)
  /\ Contains(ScenarioRow.merchant, <<"s","t","a","r","b","u","c","k","s">>)
  /\ decide_category(ScenarioRow, <<>>, <<>>) = <<Dining, "rule">>

\* match_keyword has answered for a text that holds keywords of two
\* categories, the one later in the table standing first in the text
C18_Witness ==
  /\ call.fn = "match_keyword" /\ returned # <<>>
  /\ \E i, j \in DOMAIN KEYWORD_RULES :
       /\ i < j
       /\ KEYWORD_RULES[i][2] # KEYWORD_RULES[j][2]
       /\ KEYWORD_RULES[i][2] = returned[1]
       /\ \E pre \in 1..Len(call.arg) :
            /\ Contains(Lower(SubSeq(call.arg, 1, pre)), KEYWORD_RULES[j][1])
            /\ ~Contains(Lower(SubSeq(call.arg, 1, pre)), KEYWORD_RULES[i][1])

\* C19: get_merchant_name returns the first three tokens that remain after
\* the stop-set tokens are removed and the digits deleted, joined by single
\* blanks: the result has at most three tokens, no digit and no token of the
\* stop-set, and is the empty text when every token is stripped.
C19_MerchantTokens ==
  (call.fn = "get_merchant_name" /\ returned # <<>>) =>
    LET kept == SelectSeq(Split(call.arg), LAMBDA t : t \notin words_to_skip)
        remaining == SelectSeq([i \in 1..Len(kept) |-> StripDigits(kept[i])],
                               LAMBDA t : t # <<>>)
        parts == Split(returned[1])
    IN  /\ returned[1] = Join(TakeFirst(remaining, 3))
        /\ Len(parts) <= 3
        /\ \A i \in DOMAIN returned[1] : returned[1][i] \notin DIGITS
        /\ \A i \in DOMAIN parts : parts[i] \notin words_to_skip
        /\ remaining = <<>> => returned[1] = <<>>

(* -------------------------------- forecast ------------------------------- *)

\* Amounts are whole numbers, on which the quartiles (multiples of 1/4) and
\* the fences (multiples of 1/8) are exact in floating point as well.

RECURSIVE Insert(_, _)
Insert(sorted, v) ==
  IF sorted = <<>> THEN <<v>>
  ELSE IF v <= sorted[1] THEN <<v>> \o sorted
  ELSE <<sorted[1]>> \o Insert(Tail(sorted), v)

RECURSIVE SortAsc(_)
SortAsc(data) ==
  IF data = <<>> THEN <<>> ELSE Insert(SortAsc(Tail(data)), data[1])

RECURSIVE Sum(_)
Sum(data) == IF data = <<>> THEN 0 ELSE data[1] + Sum(Tail(data))

\* four times Series.quantile(quarters / 4), with pandas' linear interpolation
\* between the two order statistics around position (n - 1) * quarters / 4
Quantile4(data, quarters) ==
  LET x == SortAsc(data)
      pos == quarters * (Len(x) - 1)
      lo == pos \div 4
      part == pos % 4
  IN  4 * x[lo + 1] + (IF part = 0 THEN 0 ELSE part * (x[lo + 2] - x[lo + 1]))

OUTLIER_MIN_POINTS == 4

\* remove_outliers with the test len(data) <= 4
remove_outliers_upto4(data) ==
  IF Len(data) <= OUTLIER_MIN_POINTS THEN data
  ELSE LET q1 == Quantile4(data, 1)
           q3 == Quantile4(data, 3)
           iqr == q3 - q1
           lower == 2 * q1 - 3 * iqr
           upper == 2 * q3 + 3 * iqr
       IN  SelectSeq(data, LAMBDA v : 8 * v >= lower /\ 8 * v <= upper)

\* remove_outliers keeping the values outside the fences
remove_outliers_inverted(data) ==
  IF Len(data) < OUTLIER_MIN_POINTS THEN data
  ELSE LET q1 == Quantile4(data, 1)
           q3 == Quantile4(data, 3)
           iqr == q3 - q1
           lower == 2 * q1 - 3 * iqr
           upper == 2 * q3 + 3 * iqr
       IN  SelectSeq(data, LAMBDA v : 8 * v < lower \/ 8 * v > upper)

\* remove_outliers(data, multiplier=1.5); q1, q3 and iqr are held times 4,
\* lower and upper times 8
remove_outliers(data) ==
  IF Len(data) < OUTLIER_MIN_POINTS THEN data
  ELSE LET q1 == Quantile4(data, 1)
           q3 == Quantile4(data, 3)
           iqr == q3 - q1
           lower == 2 * q1 - 3 * iqr
           upper == 2 * q3 + 3 * iqr
       IN  SelectSeq(data, LAMBDA v : 8 * v >= lower /\ 8 * v <= upper)

RECURSIVE GCD(_, _)
GCD(a, b) == IF b = 0 THEN a ELSE GCD(b, a % b)

\* the fraction n / d (n >= 0, d > 0) in lowest terms
Frac(n, d) == LET g == GCD(n, d) IN [num |-> n \div g, den |-> d \div g]
FracGeq(a, b) == a.num * b.den >= b.num * a.den

MinOf(data) == CHOOSE v \in Range(data) : \A w \in Range(data) : v <= w
MaxOf(data) == CHOOSE v \in Range(data) : \A w \in Range(data) : v >= w

RECURSIVE Ascending(_)
\* the elements of a set of numbers in ascending order
Ascending(S) ==
  IF S = {} THEN <<>>
  ELSE LET least == CHOOSE v \in S : \A w \in S : v <= w
       IN  <<least>> \o Ascending(S \ {least})

\* the months of the window: unique_months[-months_lookback:]
recent_months(months, months_lookback) ==
  { m \in months : Cardinality({ later \in months : later > m }) < months_lookback }

\* one record of forecast_by_category (lines 56-78).  std_dev is the square
\* root of variance (the sample variance, 0 for a single point), and
\* confidence_low and confidence_high are avg_spend -/+ std_dev.
forecast_record(cat, cat_data) ==
  LET filtered == remove_outliers(cat_data)
      cat_clean == IF Len(filtered) = 0 THEN cat_data ELSE filtered
      num == Len(cat_clean)
      total == Sum(cat_clean)
      squares == Sum([i \in 1..num |-> cat_clean[i] * cat_clean[i]])
  IN  [category |-> cat,
       avg_spend |-> Frac(total, num),
       variance |-> IF num > 1 THEN Frac(num * squares - total * total, num * (num - 1))
                    ELSE Frac(0, 1),
       min_spend |-> MinOf(cat_clean),
       max_spend |-> MaxOf(cat_clean),
       num_months |-> num]

\* forecast_by_category trimming each category's series by the fences of the
\* monthly totals of all categories together
forecast_records_pooled(frame, months_lookback) ==
  LET kept == SelectSeq(frame, LAMBDA r : r.category # Transfer)
      unique_months == { kept[i].month : i \in DOMAIN kept }
      window == recent_months(unique_months, months_lookback)
      df_recent == SelectSeq(kept, LAMBDA r : r.month \in window)
      cats == { df_recent[i].category : i \in DOMAIN df_recent }
      monthly_total(cat, m) ==
        Sum([i \in DOMAIN df_recent |->
               IF df_recent[i].category = cat /\ df_recent[i].month = m
               THEN df_recent[i].amount_spend ELSE 0])
      months_of(cat) ==
        { df_recent[i].month : i \in { j \in DOMAIN df_recent : df_recent[j].category = cat } }
      cat_data(cat) ==
        LET ms == Ascending(months_of(cat))
        IN  [i \in DOMAIN ms |-> monthly_total(cat, ms[i])]
      RECURSIVE pooled(_)
      pooled(cs) ==
        IF cs = {} THEN <<>>
        ELSE LET c == CHOOSE x \in cs : TRUE IN cat_data(c) \o pooled(cs \ {c})
      all_data == pooled(cats)
      within(v) == v \in Range(remove_outliers(all_data))
      record(cat) ==
        LET filtered == SelectSeq(cat_data(cat), within)
            cat_clean == IF Len(filtered) = 0 THEN cat_data(cat) ELSE filtered
            num == Len(cat_clean)
            total == Sum(cat_clean)
            squares == Sum([i \in 1..num |-> cat_clean[i] * cat_clean[i]])
        IN  [category |-> cat,
             avg_spend |-> Frac(total, num),
             variance |-> IF num > 1
                          THEN Frac(num * squares - total * total, num * (num - 1))
                          ELSE Frac(0, 1),
             min_spend |-> MinOf(cat_clean),
             max_spend |-> MaxOf(cat_clean),
             num_months |-> num]
  IN  { record(cat) : cat \in cats }

\* monthly_by_cat with the window taken per category: the last months_lookback
\* months in which that category has a row
monthly_by_cat_own_window(frame, months_lookback) ==
  LET kept == SelectSeq(frame, LAMBDA r : r.category # Transfer)
      months_of(cat) ==
        { kept[i].month : i \in { j \in DOMAIN kept : kept[j].category = cat } }
      df_recent ==
        SelectSeq(kept, LAMBDA r : r.month \in recent_months(months_of(r.category),
                                                              months_lookback))
  IN  { [category |-> df_recent[i].category,
         year_month |-> df_recent[i].month,
         monthly_total |->
           Sum([k \in DOMAIN df_recent |->
                  IF /\ df_recent[k].category = df_recent[i].category
                     /\ df_recent[k].month = df_recent[i].month
                  THEN df_recent[k].amount_spend ELSE 0])] : i \in DOMAIN df_recent }

\* monthly_by_cat of forecast_by_category (lines 29-51): the rows that are no
\* transfer, of the last months_lookback distinct months of those rows,
\* summed per category and month
monthly_by_cat(frame, months_lookback) ==
  LET kept == SelectSeq(frame, LAMBDA r : r.category # Transfer)
      unique_months == { kept[i].month : i \in DOMAIN kept }
      window == recent_months(unique_months, months_lookback)
      df_recent == SelectSeq(kept, LAMBDA r : r.month \in window)
  IN  { [category |-> df_recent[i].category,
         year_month |-> df_recent[i].month,
         monthly_total |->
           Sum([k \in DOMAIN df_recent |->
                  IF /\ df_recent[k].category = df_recent[i].category
                     /\ df_recent[k].month = df_recent[i].month
                  THEN df_recent[k].amount_spend ELSE 0])] : i \in DOMAIN df_recent }

\* the records of forecast_by_category(df, months_lookback), before the sort
\* (lines 54-78): one per category of monthly_by_cat, from its monthly
\* totals, oldest month first
forecast_records(frame, months_lookback) ==
  LET table == monthly_by_cat(frame, months_lookback)
      cats == { e.category : e \in table }
      entry(cat, m) == CHOOSE e \in table : e.category = cat /\ e.year_month = m
      cat_data(cat) ==
        LET ms == Ascending({ e.year_month : e \in { x \in table : x.category = cat } })
        IN  [i \in DOMAIN ms |-> entry(cat, ms[i]).monthly_total]
  IN  { forecast_record(cat, cat_data(cat)) : cat \in cats }

\* forecast_by_category: the tables it can return.  The records are sorted by
\* avg_spend, descending (line 80); the order of records with equal avg_spend
\* is left to the sort routine of the build.
forecast_by_category(frame, months_lookback) ==
  LET results == forecast_records(frame, months_lookback)
      n == Cardinality(results)
  IN  { t \in [1..n -> results] :
          \A i, j \in 1..n :
            i < j => t[i] # t[j] /\ FracGeq(t[i].avg_spend, t[j].avg_spend) }

\* monthly_totals with the rows of category Transfer left in
monthly_totals_with_transfers(frame, months_lookback) ==
  LET kept == frame
      months == Ascending({ kept[i].month : i \in DOMAIN kept })
      all_totals ==
        [k \in DOMAIN months |->
           [year_month |-> months[k],
            monthly_total |->
              Sum([i \in DOMAIN kept |->
                     IF kept[i].month = months[k] THEN kept[i].amount_spend ELSE 0])]]
      n == Len(all_totals)
  IN  SubSeq(all_totals, IF n > months_lookback THEN n - months_lookback + 1 ELSE 1, n)

\* monthly_totals of forecast_total_spend (lines 96-103): the sums of
\* amount_spend of the months that have a row left, oldest first, and of
\* those the last months_lookback
monthly_totals(frame, months_lookback) ==
  LET kept == SelectSeq(frame, LAMBDA r : r.category # Transfer)
      months == Ascending({ kept[i].month : i \in DOMAIN kept })
      all_totals ==
        [k \in DOMAIN months |->
           [year_month |-> months[k],
            monthly_total |->
              Sum([i \in DOMAIN kept |->
                     IF kept[i].month = months[k] THEN kept[i].amount_spend ELSE 0])]]
      n == Len(all_totals)
  IN  SubSeq(all_totals, IF n > months_lookback THEN n - months_lookback + 1 ELSE 1, n)

\* forecast_total_spend answering a batch without a month with a record of
\* zeros in place of {}
forecast_total_spend_zero_for_empty(frame, months_lookback) ==
  LET tail == monthly_totals(frame, months_lookback)
      totals == [k \in DOMAIN tail |-> tail[k].monthly_total]
      filtered == remove_outliers(totals)
      totals_clean == IF Len(filtered) = 0 THEN totals ELSE filtered
      num == Len(totals_clean)
      total == Sum(totals_clean)
      squares == Sum([i \in 1..num |-> totals_clean[i] * totals_clean[i]])
  IN  IF frame = <<>> \/ Len(tail) = 0
      THEN [avg_spend |-> Frac(0, 1), variance |-> Frac(0, 1),
            min_spend |-> 0, max_spend |-> 0, num_months |-> 0]
      ELSE [avg_spend |-> Frac(total, num),
            variance |-> IF num > 1
                         THEN Frac(num * squares - total * total, num * (num - 1))
                         ELSE Frac(0, 1),
            min_spend |-> MinOf(totals_clean),
            max_spend |-> MaxOf(totals_clean),
            num_months |-> num]

\* forecast_total_spend(df, months_lookback); {} is the empty record <<>>.
\* std_dev is the square root of variance, and confidence_low and
\* confidence_high are avg_spend -/+ std_dev.
forecast_total_spend(frame, months_lookback) ==
  LET tail == monthly_totals(frame, months_lookback)
      totals == [k \in DOMAIN tail |-> tail[k].monthly_total]
      filtered == remove_outliers(totals)
      totals_clean == IF Len(filtered) = 0 THEN totals ELSE filtered
      num == Len(totals_clean)
      total == Sum(totals_clean)
      squares == Sum([i \in 1..num |-> totals_clean[i] * totals_clean[i]])
  IN  IF frame = <<>> \/ Len(tail) = 0 THEN <<>>
      ELSE [avg_spend |-> Frac(total, num),
            variance |-> IF num > 1
                         THEN Frac(num * squares - total * total, num * (num - 1))
                         ELSE Frac(0, 1),
            min_spend |-> MinOf(totals_clean),
            max_spend |-> MaxOf(totals_clean),
            num_months |-> num]

MaxPoints == 5

Amounts == {0, 800, 810, 820, 5000}
Samples == SeqsUpTo(Amounts, MaxPoints)

\* a categorized batch as the forecast reads it: the category, the calendar
\* month (numbered) and amount_spend of each row
Txn(cat, m, amount) == [category |-> cat, month |-> m, amount_spend |-> amount]

\* one row of category cat in each of the months 1..Len(series)
SeriesBatch(cat, series) == [m \in DOMAIN series |-> Txn(cat, m, series[m])]

\* the scenario's batch: monthly totals 800, 820, 810 and 5000 of one category
ScenarioTotals == <<800, 820, 810, 5000>>

\* the monthly series of Dining: up to MaxPoints months
DiningAmounts == {0, 810, 5000}
DiningSeries == SeqsUpTo(DiningAmounts, MaxPoints) \cup {ScenarioTotals}

\* a month after every month of a Dining series
LateMonth == MaxPoints + 3

\* the rows of the other categories: none; a transfer in a month of its own
\* or in a month of the series; Travel rows in the first month (one, or two
\* that add up), in a late month, or in four months with an outlier
OtherRows ==
  { <<>>,
    <<Txn(Transfer, LateMonth, 5000)>>,
    <<Txn(Transfer, 2, 5000)>>,
    <<Txn(Travel, 1, 810)>>,
    <<Txn(Travel, 1, 810), Txn(Travel, 1, 5000)>>,
    <<Txn(Travel, LateMonth, 0)>>,
    SeriesBatch(Travel, <<810, 810, 810, 5000>>) }

Batches == { others \o SeriesBatch(Dining, s) : s \in DiningSeries, others \in OtherRows }

Lookbacks == {3, 4}

ForecastCalls ==
  [fn : {"remove_outliers"}, arg : Samples]
    \cup [fn : {"forecast_by_category", "forecast_total_spend"},
          arg : Batches \X Lookbacks]

InitForecast ==
  /\ df = [columns |-> ALL_COLUMNS, rows |-> <<>>]
  /\ overrides_json = MissingFile
  /\ one_off_csv = MissingFile
  /\ cat_csv = NoFrame
  /\ pc = "idle"
  /\ out = <<>>
  /\ merchant_map = <<>>
  /\ one_off_map = <<>>
  /\ categories = <<>>
  /\ sources = <<>>
  /\ error = "none"
  /\ last_edit = NoEdit
  /\ call \in ForecastCalls
  /\ returned = <<>>
  /\ sessions = NoSessions

CallRemoveOutliers ==
  /\ call.fn = "remove_outliers"
  /\ returned = <<>>
  /\ returned' = <<remove_outliers(call.arg)>>
  /\ UNCHANGED <<call, sessions, pipeline_vars>>

CallForecastByCategory ==
  /\ call.fn = "forecast_by_category"
  /\ returned = <<>>
  /\ \E table \in forecast_by_category(call.arg[1], call.arg[2]) :
       returned' = <<table>>
  /\ UNCHANGED <<call, sessions, pipeline_vars>>

CallForecastTotalSpend ==
  /\ call.fn = "forecast_total_spend"
  /\ returned = <<>>
  /\ returned' = <<forecast_total_spend(call.arg[1], call.arg[2])>>
  /\ UNCHANGED <<call, sessions, pipeline_vars>>

NextForecast ==
  \/ CallRemoveOutliers
  \/ CallForecastByCategory
  \/ CallForecastTotalSpend

SpecForecast == InitForecast /\ [][NextForecast]_vars

\* the quartiles of a sample, times 4, from the order statistics
Q1x4(data) == Quantile4(data, 1)
Q3x4(data) == Quantile4(data, 3)

\* v lies within [Q1 - 1.5 * IQR, Q3 + 1.5 * IQR] of the sample
WithinFences(v, data) ==
  /\ 8 * v >= 2 * Q1x4(data) - 3 * (Q3x4(data) - Q1x4(data))
  /\ 8 * v <= 2 * Q3x4(data) + 3 * (Q3x4(data) - Q1x4(data))

\* C20: remove_outliers returns a sample of fewer than 4 points unchanged,
\* and of a sample of 4 or more points exactly the values v with
\* Q1 - 1.5 * IQR <= v <= Q3 + 1.5 * IQR, in their order; for the monthly
\* totals 800, 820, 810, 5000 and months_lookback 4 the 5000 is trimmed and
\* the forecast has avg_spend 810 and num_months 3.
C20_OutlierTrimming ==
  /\ (call.fn = "remove_outliers" /\ returned # <<>>) =>
       IF Len(call.arg) < 4 THEN returned[1] = call.arg
       ELSE returned[1] = SelectSeq(call.arg, LAMBDA v : WithinFences(v, call.arg))
  /\ ( /\ call.fn = "forecast_by_category"
       /\ call.arg = <<SeriesBatch(Dining, ScenarioTotals), 4>>
       /\ returned # <<>> ) =>
       /\ Len(returned[1]) = 1
       /\ returned[1][1].category = Dining
       /\ returned[1][1].avg_spend = [num |-> 810, den |-> 1]
       /\ returned[1][1].num_months = 3
       /\ returned[1][1].max_spend = 820

\* the forecast of the scenario's batch has been computed from three of its
\* four monthly totals
C20_Witness ==
  /\ call.fn = "forecast_by_category"
  /\ call.arg = <<SeriesBatch(Dining, ScenarioTotals), 4>>
  /\ returned # <<>>
  /\ returned[1][1].num_months = 3

\* C21: remove_outliers returns a non-empty series for every non-empty
\* sample, and every record of forecast_by_category and of
\* forecast_total_spend is computed from at least one monthly total
\* (num_months >= 1).
C21_NeverEmptyBasis ==
  /\ (call.fn = "remove_outliers" /\ returned # <<>> /\ call.arg # <<>>)
       => returned[1] # <<>>
  /\ (call.fn = "forecast_by_category" /\ returned # <<>>)
       => \A i \in DOMAIN returned[1] : returned[1][i].num_months >= 1
  /\ (call.fn = "forecast_total_spend" /\ returned # <<>> /\ returned[1] # <<>>)
       => returned[1].num_months >= 1

\* remove_outliers has trimmed a sample on both sides and returned what is
\* left of it
C21_Witness ==
  /\ call.fn = "remove_outliers" /\ returned # <<>>
  /\ returned[1] # <<>>
  /\ \E i, j \in DOMAIN call.arg :
       /\ call.arg[i] < MinOf(returned[1])
       /\ call.arg[j] > MaxOf(returned[1])

\* the months in which a batch has a row that is no transfer
SpendMonths(frame) ==
  { frame[i].month : i \in { j \in DOMAIN frame : frame[j].category # Transfer } }

\* the sum of amount_spend of the rows of month m that are no transfer
SpendOfMonth(frame, m) ==
  Sum([i \in DOMAIN frame |->
         IF frame[i].month = m /\ frame[i].category # Transfer
         THEN frame[i].amount_spend ELSE 0])

\* the monthly sums of the last months_lookback months that have a row that
\* is no transfer, oldest first
WindowSeries(frame, months_lookback) ==
  LET window == Ascending(recent_months(SpendMonths(frame), months_lookback))
  IN  [k \in DOMAIN window |-> SpendOfMonth(frame, window[k])]

\* C22: forecast_total_spend computes its statistics from the monthly sums of
\* amount_spend over the last months_lookback distinct months that have a row
\* that is no transfer: rows of category Transfer add to no sum and make no
\* month, months without such a row are skipped, num_months is at most
\* months_lookback, and the result is empty exactly when there is no month.
C22_TotalWindow ==
  (call.fn = "forecast_total_spend" /\ returned # <<>>) =>
    LET series == WindowSeries(call.arg[1], call.arg[2])
        basis == remove_outliers(series)
    IN  IF series = <<>> THEN returned[1] = <<>>
        ELSE /\ returned[1] # <<>>
             /\ returned[1].num_months = Len(basis)
             /\ returned[1].num_months <= call.arg[2]
             /\ returned[1].avg_spend = Frac(Sum(basis), Len(basis))
             /\ returned[1].min_spend = MinOf(basis)
             /\ returned[1].max_spend = MaxOf(basis)

\* the total forecast of a batch whose last month holds a transfer only, and
\* which has more months with spending than the lookback, has been computed
\* from months_lookback monthly sums
C22_Witness ==
  /\ call.fn = "forecast_total_spend" /\ returned # <<>>
  /\ \E i \in DOMAIN call.arg[1] :
       /\ call.arg[1][i].category = Transfer
       /\ call.arg[1][i].month \notin SpendMonths(call.arg[1])
       /\ \A m \in SpendMonths(call.arg[1]) : m < call.arg[1][i].month
  /\ Cardinality(SpendMonths(call.arg[1])) > call.arg[2]
  /\ returned[1] # <<>>
  /\ returned[1].num_months = call.arg[2]

\* the rows of category cat of a batch
RowsOf(frame, cat) == SelectSeq(frame, LAMBDA r : r.category = cat)

\* the months of the lookback window of forecast_by_category
Window(frame, months_lookback) == recent_months(SpendMonths(frame), months_lookback)

\* the record of category cat among a set of records, <<>> when it has none
RecordOf(records, cat) ==
  IF \E r \in records : r.category = cat
  THEN CHOOSE r \in records : r.category = cat
  ELSE <<>>

\* C23: the per-category forecasts are independent: the record of Dining
\* (avg_spend, variance, min, max, num_months) that forecast_by_category
\* returns for a batch is the record it returns for every batch with the same
\* Dining rows, the same months in the lookback window and any other rows of
\* the other categories, also when the series of another category has an
\* outlier that is trimmed.
C23_CategoriesIndependent ==
  (call.fn = "forecast_by_category" /\ returned # <<>>) =>
    \A others \in OtherRows :
      LET frame == call.arg[1]
          varied == others \o RowsOf(frame, Dining)
      IN  Window(varied, call.arg[2]) = Window(frame, call.arg[2])
            => RecordOf(Range(returned[1]), Dining)
                 = RecordOf(forecast_records(varied, call.arg[2]), Dining)

\* a table has been returned in which the Travel series was trimmed of its
\* outlier and Dining has a record, while the same Dining rows with other
\* Travel rows have the same window
C23_Witness ==
  /\ call.fn = "forecast_by_category" /\ returned # <<>>
  /\ RecordOf(Range(returned[1]), Dining) # <<>>
  /\ RecordOf(Range(returned[1]), Travel) # <<>>
  /\ RecordOf(Range(returned[1]), Travel).num_months = 3
  /\ Len(RowsOf(call.arg[1], Travel)) = 4
  /\ \E others \in OtherRows :
       /\ RowsOf(others, Travel) \notin {<<>>, RowsOf(call.arg[1], Travel)}
       /\ Window(others \o RowsOf(call.arg[1], Dining), call.arg[2])
            = Window(call.arg[1], call.arg[2])

\* every row of the batch is of category Transfer (also when it has no row)
AllExcluded(frame) == \A i \in DOMAIN frame : frame[i].category = Transfer

\* the rows of the batch that are no transfers all have amount_spend 0
AllZero(frame) ==
  \A i \in DOMAIN frame : frame[i].category # Transfer => frame[i].amount_spend = 0

\* C24: forecasting on an empty batch or on a batch of transfers only returns
\* the empty result, {} from forecast_total_spend and a table without rows
\* from forecast_by_category, never a record; a batch with a row that is no
\* transfer returns a record (a table with a record), and when its retained
\* months all sum to zero that record has avg_spend 0 and is not the empty
\* result.
C24_EmptyResult ==
  /\ (call.fn = "forecast_total_spend" /\ returned # <<>>) =>
       IF AllExcluded(call.arg[1])
       THEN returned[1] = <<>>
       ELSE /\ returned[1] # <<>>
            /\ returned[1].num_months >= 1
            /\ AllZero(call.arg[1]) => returned[1].avg_spend = Frac(0, 1)
  /\ (call.fn = "forecast_by_category" /\ returned # <<>>) =>
       IF AllExcluded(call.arg[1])
       THEN returned[1] = <<>>
       ELSE /\ Len(returned[1]) >= 1
            /\ \A i \in DOMAIN returned[1] : returned[1][i].num_months >= 1
            /\ AllZero(call.arg[1]) =>
                 \A i \in DOMAIN returned[1] : returned[1][i].avg_spend = Frac(0, 1)

\* forecast_total_spend has answered a batch of transfers only with {}
C24_Witness ==
  /\ call.fn = "forecast_total_spend"
  /\ call.arg[1] # <<>>
  /\ AllExcluded(call.arg[1])
  /\ returned = << <<>> >>

\* forecast_total_spend has answered a batch of zero amounts with a record of
\* avg_spend 0
C24_ZeroForecastReached ==
  /\ call.fn = "forecast_total_spend"
  /\ ~AllExcluded(call.arg[1])
  /\ AllZero(call.arg[1])
  /\ returned # <<>>
  /\ returned[1] # <<>>
  /\ returned[1].avg_spend = Frac(0, 1)

\* a row cleaning can produce: dropna (clean_transactions line 50) leaves no
\* row without a date or without a numeric amount
Cleaned(row) == row.date # NaT /\ row.amount_signed.k = "num"

\* amount_spend = max(0, -amount_signed)
SpendMatchesSigned(row) ==
  row.amount_spend = Num(IF 0 - row.amount_signed.v > 0 THEN 0 - row.amount_signed.v ELSE 0)

\* C25: every row cleaning produces has amount_spend = max(0, -amount_signed);
\* categorize leaves amount_signed and amount_spend of every row as they are
\* in its input, in the working frame and in the frame it returns, so every
\* row of the categorized batch that came from cleaning satisfies the
\* equation, and the rows excluded as credits have amount_spend 0.
C25_SpendInvariant ==
  /\ \A i \in DOMAIN df.rows : Cleaned(df.rows[i]) => SpendMatchesSigned(df.rows[i])
  /\ pc = "rows" =>
       /\ Len(out) = Len(df.rows)
       /\ \A i \in DOMAIN out :
            /\ out[i].amount_signed = df.rows[i].amount_signed
            /\ out[i].amount_spend = df.rows[i].amount_spend
  /\ cat_csv.exists =>
       /\ Len(cat_csv.rows) = Len(df.rows)
       /\ \A i \in DOMAIN cat_csv.rows :
            /\ cat_csv.rows[i].amount_signed = df.rows[i].amount_signed
            /\ cat_csv.rows[i].amount_spend = df.rows[i].amount_spend
            /\ Cleaned(df.rows[i]) => SpendMatchesSigned(cat_csv.rows[i])
            /\ cat_csv.rows[i].category = EXCLUDE => cat_csv.rows[i].amount_spend = Num(0)

\* a categorized batch has been saved with a credit of amount_spend 0 and a
\* purchase of amount_spend 5.75
C25_Witness ==
  /\ cat_csv.exists
  /\ \E i, j \in DOMAIN cat_csv.rows :
       /\ cat_csv.rows[i].category = EXCLUDE
       /\ cat_csv.rows[i].amount_signed = Num(1200000)
       /\ cat_csv.rows[i].amount_spend = Num(0)
       /\ cat_csv.rows[j].amount_signed = Num(-5750)
       /\ cat_csv.rows[j].amount_spend = Num(5750)

\* the sum of the monthly totals of a set of entries of monthly_by_cat
RECURSIVE SumOfEntries(_)
SumOfEntries(entries) ==
  IF entries = {} THEN 0
  ELSE LET e == CHOOSE x \in entries : TRUE
       IN  e.monthly_total + SumOfEntries(entries \ {e})

\* category cat has a row in month m of the batch
HasRow(frame, cat, m) ==
  \E i \in DOMAIN frame : frame[i].category = cat /\ frame[i].month = m

\* C26: the per-category forecast uses the month window of the total
\* forecast, the last months_lookback distinct months of the whole batch
\* without its transfers; a category has one monthly total for each window
\* month in which it has a row and none for another month; and for every
\* window month the monthly totals of the categories sum to the total of that
\* month in forecast_total_spend before outlier removal.  The records returned
\* are those of the categories with a monthly total.
C26_SameWindow ==
  (call.fn \in {"forecast_by_category", "forecast_total_spend"} /\ returned # <<>>) =>
    LET frame == call.arg[1]
        table == monthly_by_cat(frame, call.arg[2])
        totals == monthly_totals(frame, call.arg[2])
        window == recent_months(SpendMonths(frame), call.arg[2])
    IN  /\ { e.year_month : e \in table } = window
        /\ { totals[k].year_month : k \in DOMAIN totals } = window
        /\ Cardinality(window) <= call.arg[2]
        /\ \A e \in table :
             /\ e.category # Transfer
             /\ HasRow(frame, e.category, e.year_month)
             /\ \A other \in table :
                  (other.category = e.category /\ other.year_month = e.year_month)
                    => other = e
        /\ \A i \in DOMAIN frame :
             (frame[i].category # Transfer /\ frame[i].month \in window)
               => \E e \in table : /\ e.category = frame[i].category
                                   /\ e.year_month = frame[i].month
        /\ \A k \in DOMAIN totals :
             SumOfEntries({ e \in table : e.year_month = totals[k].year_month })
               = totals[k].monthly_total
        /\ call.fn = "forecast_by_category" =>
             /\ { returned[1][i].category : i \in DOMAIN returned[1] }
                  = { e.category : e \in table }
             /\ \A i \in DOMAIN returned[1] :
                  returned[1][i].num_months
                    <= Cardinality({ e \in table : e.category = returned[1][i].category })

\* a table has been returned for a window of three months in which Dining has
\* a row in each month, Travel in two of them, and Travel also has rows in
\* months before the window
C26_Witness ==
  /\ call.fn = "forecast_by_category" /\ returned # <<>>
  /\ call.arg[2] = 3
  /\ LET table == monthly_by_cat(call.arg[1], call.arg[2])
     IN  /\ { e.year_month : e \in table } = {3, 4, 5}
         /\ Cardinality({ e \in table : e.category = Dining }) = 3
         /\ Cardinality({ e \in table : e.category = Travel }) = 2
         /\ HasRow(call.arg[1], Travel, 1)
  /\ Len(returned[1]) = 2

(* ---------------- two dashboard sessions apply an override --------------- *)

\* Each browser session runs the script in a thread of its own; the handlers
\* of the settings tab take no lock, so the load, the save and the recompute
\* of one session can fall between those of the other.

Sessions == {1, 2}

\* the cleaned batch both sessions show: two purchases at different merchants
SessionRows ==
  << Row(Morning, D_STARBUCKS, Num(-5750), NaN),
     Row(Morning, D_PARKING, Num(-5750), NaN) >>

\* the entries the stores may hold before the sessions act
PriorOverrides == << <<K_STORE, Shopping>> >>
PriorOneOff ==
  << <<make_txn_id(Row(Morning, D_STARBUCKS, Num(1200000), B_RESTAURANTS)), Travel>> >>

\* categorize(clean_df) as _recompute_and_refresh calls it (app.py lines
\* 109-115), on a frame with every column and rows whose id can be made
recompute(frame, overrides_file, one_off_file) ==
  [i \in DOMAIN frame.rows |->
     LET row == NormTable[frame.rows[i]][frame.columns]
         decided == decide_category(row, load_one_off(one_off_file),
                                    load_overrides(overrides_file))
     IN  [date |-> row.date, description |-> row.description,
          amount_signed |-> row.amount_signed, amount_spend |-> row.amount_spend,
          bank_category |-> row.bank_category,
          description_norm |-> row.description_norm, merchant |-> row.merchant,
          bank_category_clean |-> row.bank_category_clean, txn_id |-> row.txn_id,
          category |-> decided[1], category_source |-> decided[2]]]

IdleSession == [pc |-> "idle", kind |-> "none", key |-> <<>>, category |-> <<>>,
                loaded |-> <<>>]

InitSessions ==
  /\ df = [columns |-> ALL_COLUMNS, rows |-> SessionRows]
  /\ overrides_json \in { MissingFile, FileOf(<<>>), FileOf(PriorOverrides) }
  /\ one_off_csv \in { MissingFile, FileOf(<<>>), FileOf(PriorOneOff) }
  /\ cat_csv = [exists |-> TRUE, rows |-> recompute(df, overrides_json, one_off_csv)]
  /\ pc = "idle"
  /\ out = <<>>
  /\ merchant_map = <<>>
  /\ one_off_map = <<>>
  /\ categories = <<>>
  /\ sources = <<>>
  /\ error = "none"
  /\ last_edit = NoEdit
  /\ call = NoCall
  /\ returned = <<>>
  /\ sessions = [s \in Sessions |-> IdleSession]

\* the key of the other session's edit is not this one
OtherKey(s, kind, key) ==
  \A t \in Sessions \ {s} : ~(sessions[t].kind = kind /\ sessions[t].key = key)

\* "Apply" of the merchant tab, lines 674-677: _load_overrides (which writes
\* an empty file where there is none) and the assignment to the dict
SessionLoadOverrides ==
  \E s \in Sessions, i \in Listed, new_cat \in all_categories :
    LET norm_merchant == normalize_merchant(cat_csv.rows[i].merchant)
    IN  /\ sessions[s].pc = "idle"
        /\ OtherKey(s, "merchant", norm_merchant)
        /\ sessions' = [sessions EXCEPT ![s] =
             [pc |-> "loaded", kind |-> "merchant", key |-> norm_merchant,
              category |-> new_cat,
              loaded |-> DictSet(app_load_overrides(overrides_json),
                                 norm_merchant, new_cat)]]
        /\ overrides_json' = load_overrides_file(overrides_json)
        /\ UNCHANGED <<df, one_off_csv, cat_csv, pc, out, merchant_map, one_off_map,
                       categories, sources, error, last_edit, call, returned>>

\* "Apply" of the one-off tab, lines 707-710: _load_one_off_map (which writes
\* a header-only file where there is none) and the assignment to the dict
SessionLoadOneOff ==
  \E s \in Sessions, i \in Listed, new_cat \in all_categories :
    LET txn_id == cat_csv.rows[i].txn_id
    IN  /\ sessions[s].pc = "idle"
        /\ OtherKey(s, "one_off", txn_id)
        /\ sessions' = [sessions EXCEPT ![s] =
             [pc |-> "loaded", kind |-> "one_off", key |-> txn_id,
              category |-> new_cat,
              loaded |-> DictSet(load_one_off(one_off_csv), txn_id, new_cat)]]
        /\ one_off_csv' = load_one_off_file(one_off_csv)
        /\ UNCHANGED <<df, overrides_json, cat_csv, pc, out, merchant_map, one_off_map,
                       categories, sources, error, last_edit, call, returned>>

\* lines 678 and 711: _save_overrides / _save_one_off_map write the dict the
\* session holds over the file
SessionSave ==
  \E s \in Sessions :
    /\ sessions[s].pc = "loaded"
    /\ IF sessions[s].kind = "merchant"
       THEN /\ overrides_json' = FileOf(sessions[s].loaded)
            /\ UNCHANGED one_off_csv
       ELSE /\ one_off_csv' = FileOf(sessions[s].loaded)
            /\ UNCHANGED overrides_json
    /\ sessions' = [sessions EXCEPT ![s].pc = "saved"]
    /\ UNCHANGED <<df, cat_csv, pc, out, merchant_map, one_off_map,
                   categories, sources, error, last_edit, call, returned>>

\* lines 679 and 712: _recompute_and_refresh categorizes the cleaned batch
\* with the store as it is now and saves the result
SessionRecompute ==
  \E s \in Sessions :
    /\ sessions[s].pc = "saved"
    /\ cat_csv' = [exists |-> TRUE, rows |-> recompute(df, overrides_json, one_off_csv)]
    /\ overrides_json' = load_overrides_file(overrides_json)
    /\ one_off_csv' = load_one_off_file(one_off_csv)
    /\ sessions' = [sessions EXCEPT ![s].pc = "done"]
    /\ UNCHANGED <<df, pc, out, merchant_map, one_off_map,
                   categories, sources, error, last_edit, call, returned>>

NextSessions ==
  \/ SessionLoadOverrides
  \/ SessionLoadOneOff
  \/ SessionSave
  \/ SessionRecompute

SpecSessions == InitSessions /\ [][NextSessions]_vars

\* every entry of the first file is an entry of the second
EntriesKept(before, after) ==
  \A i \in DOMAIN before.data :
    /\ DictHas(after.data, before.data[i][1])
    /\ DictGet(after.data, before.data[i][1]) = before.data[i][2]

\* the store of a session's edit
StoreOf(s) == IF sessions[s].kind = "merchant" THEN overrides_json ELSE one_off_csv

\* C27: rule edits are never lost: when two dashboard sessions each apply an
\* override, for different merchants or different transactions, in any
\* interleaving of their loads and saves, no step removes or changes an entry
\* the store holds, and once a session has saved, the store holds its entry;
\* so in the end the store contains both new entries and every entry it held
\* before.
C27_EditsNeverLost ==
  /\ [][/\ EntriesKept(overrides_json, overrides_json')
        /\ EntriesKept(one_off_csv, one_off_csv')]_vars
  /\ [](\A s \in DOMAIN sessions :
          sessions[s].pc \in {"saved", "done"} =>
            /\ DictHas(StoreOf(s).data, sessions[s].key)
            /\ DictGet(StoreOf(s).data, sessions[s].key) = sessions[s].category)

\* both sessions have finished their edits of the merchant rules, and the
\* file holds one of the two only
C27_LostUpdateReached ==
  /\ \A s \in DOMAIN sessions : sessions[s].pc = "done" /\ sessions[s].kind = "merchant"
  /\ \E s \in DOMAIN sessions : ~DictHas(overrides_json.data, sessions[s].key)

====
